---- MODULE Spec2Model ----
(***************************************************************************)
(* A model of hamsclientfork/client.py: the meteoSwissClient object, its   *)
(* stored fields and its public operations.  Each method is one action.    *)
(* The network is the environment: every fetch draws its response from a   *)
(* small set.  CSV feeds follow the column contract of the upstream data   *)
(* (csv.DictReader gives every row all the keys of the header), so a feed  *)
(* body is the list of dictionaries the reader yields.                     *)
(*                                                                         *)
(* Python's None is the empty tuple, Some(x) is the one-element tuple.     *)
(*                                                                         *)
(* The client has three groups of operations that share no field: the      *)
(* forecast and condition calls (SpecCond), the station directory calls    *)
(* (SpecDir) and the bearing helper (SpecBearing).  Each group is a        *)
(* specification of its own over the same variables.                       *)
(***************************************************************************)
EXTENDS Integers, Sequences, FiniteSets, TLC

VARIABLES
    stations,        \* self._stations      (tuple given to the constructor)
    forecast,        \* self._forecast      (None or Some(json))
    condition,       \* self._condition     (None or Some(list of rows))
    conditions,      \* self._conditions    (dict: station code -> row)
    allStations,     \* self._allStations   (None or Some(ordered dict))
    stationFetches,  \* number of requests.get(STATION_URL) made so far
    last             \* the last call: operation, arguments, fetches, outcome

vars == <<stations, forecast, condition, conditions, allStations,
          stationFetches, last>>

None == <<>>
Some(x) == <<x>>

EmptyDict == [k \in {} |-> None]

\* ------------------------------------------------------------------ bounds
MaxRowsPerStation == 2
MaxStationRows == 2
MaxFetches == 3

\* --------------------------------------------------------------- constants
JSON_FORECAST_URL == "forecast"
CURRENT_CONDITION_URL == "VQHA80.csv"
CURRENT_PRECIPITATION_URL == "VQHA98.csv"
STATION_URL == "messnetz-automatisch_fr.csv"

KeyStation == "Station/Location"
KeyDate == "Date"
KeyTemp == "tre200s0"
KeyRain == "rre150z0"

displayName == "Bern"

\* ------------------------------------------------------------- environment
FeedCodes == {"BER", "GVE"}

StationTuples ==
    { <<>>, <<"BER">>, <<"BER", "GVE">>, <<"GVE", "BER">>, <<"BER", "BER">> }

DateOf(i) == <<"t1", "t2", "t3", "t4">>[i]

\* One row of feed A (general stations): temperature and precipitation.
RowA(c, i) ==
    (KeyStation :> c) @@ (KeyDate :> DateOf(i)) @@ (KeyTemp :> "a-temp")
        @@ (KeyRain :> "a-rain")

\* One row of feed B (precipitation stations): precipitation only.
RowB(c, i) ==
    (KeyStation :> c) @@ (KeyDate :> DateOf(i)) @@ (KeyRain :> "b-rain")

\* A feed: nb rows for "BER" followed by ng rows for "GVE".
FeedOf(feed, nb, ng) ==
    LET Row(c, i) == IF feed = "A" THEN RowA(c, i) ELSE RowB(c, i)
    IN  [i \in 1..nb |-> Row("BER", i)] \o [i \in 1..ng |-> Row("GVE", i)]

FeedsA == { FeedOf("A", nb, ng) : nb \in 0..MaxRowsPerStation, ng \in 0..1 }
FeedsB == { FeedOf("B", nb, ng) : nb \in 0..MaxRowsPerStation, ng \in 0..1 }

\* An HTTP exchange: net = "ConnectionError" when requests.get itself raises.
Response(net, status, body) == [net |-> net, status |-> status, body |-> body]

ResponsesOf(bodies, errorBodies) ==
    { Response("ok", 200, b) : b \in bodies }
        \cup { Response("ok", 404, b) : b \in errorBodies }
        \cup { Response("ConnectionError", 0, <<>>) }

ResponsesA == ResponsesOf(FeedsA, {<<>>, <<RowA("BER", 1)>>})
ResponsesB == ResponsesOf(FeedsB, {<<>>, <<RowB("BER", 1)>>})

ForecastBodies == {"f1", "garbage"}
IsJson(b) == b # "garbage"
ResponsesF ==
    { Response("ok", 200, b) : b \in ForecastBodies }
        \cup { Response("ok", 404, "f1"), Response("ConnectionError", 0, "") }

\* The exchange that is never made, because an earlier step raised.
NoResponse == Response("unsent", 0, <<>>)

Fetch(url, resp) == [url |-> url, resp |-> resp]

\* ------------------------------------------------------------- transport
\* requests.Response.raise_for_status: raises HTTPError for 4xx and 5xx.
RaisesForStatus(resp) == resp.status >= 400 /\ resp.status < 600

\* requests.get(url) followed by response.raise_for_status() and the CSV
\* parse: the error raised, or the rows read.
GetCsvChecked(resp) ==
    IF resp.net # "ok" THEN [err |-> resp.net, rows |-> <<>>]
    ELSE IF RaisesForStatus(resp) THEN [err |-> "HTTPError", rows |-> <<>>]
    ELSE [err |-> "none", rows |-> resp.body]

\* ------------------------------------------------------- get_forecast
\* s.get, raise_for_status, .json(): the error raised, or the decoded JSON.
ForecastRun(resp) ==
    IF resp.net # "ok" THEN [err |-> resp.net, json |-> None]
    ELSE IF RaisesForStatus(resp) THEN [err |-> "HTTPError", json |-> None]
    ELSE IF ~IsJson(resp.body) THEN [err |-> "JSONDecodeError", json |-> None]
    ELSE [err |-> "none", json |-> Some(resp.body)]

\* self._forecast after the call: assigned only on the last line.
ForecastAfter(old, run) == IF run.err = "none" THEN run.json ELSE old

\* ------------------------------------------------- get_current_condition
RowsOf(rows, station) == SelectSeq(rows, LAMBDA d : d[KeyStation] = station)

\* A slip: the branch that falls back on the precipitation rows is lost.
ResolveStation_IgnoresRain(station, data, rain_data) ==
    [err |-> "none", rows |-> RowsOf(data, station)]

\* One iteration of the loop over self._stations, up to the extend: the
\* rows resolved for the station, or the error the iteration raises.
\* rainData is a list, so rainData.items() raises AttributeError.
ResolveStation(station, data, rain_data) ==
    LET stationData == RowsOf(data, station)
        rainData == RowsOf(rain_data, station)
    IN  IF rainData # <<>> /\ stationData = <<>>
        THEN [err |-> "none", rows |-> rainData]
        ELSE IF rainData # <<>> /\ stationData # <<>>
        THEN [err |-> "AttributeError", rows |-> stationData]
        ELSE [err |-> "none", rows |-> stationData]

\* A slip: the last row of the station is kept instead of the first.
PutFirst_KeepsLast(conds, station, stationData) ==
    IF stationData # <<>>
    THEN [k \in DOMAIN conds \cup {station} |->
            IF k = station THEN stationData[Len(stationData)] ELSE conds[k]]
    ELSE conds

\* conditions[station] = stationData[0] when stationData is not empty.
PutFirst(conds, station, stationData) ==
    IF stationData # <<>>
    THEN [k \in DOMAIN conds \cup {station} |->
            IF k = station THEN stationData[1] ELSE conds[k]]
    ELSE conds

\* condition_list.extend(stationData)
Extend(condition_list, stationData) == condition_list \o stationData

\* The loop from station i on.  acc holds the locals conditions and
\* condition_list, and the rows resolved per station so far.
RECURSIVE StationLoop(_, _, _, _, _)
StationLoop(stns, i, data, rain_data, acc) ==
    IF i > Len(stns) THEN acc
    ELSE LET r == ResolveStation(stns[i], data, rain_data)
         IN  IF r.err # "none" THEN [acc EXCEPT !.err = r.err]
             ELSE StationLoop(stns, i + 1, data, rain_data,
                    [err |-> "none",
                     conditions |-> PutFirst(acc.conditions, stns[i], r.rows),
                     condition_list |-> Extend(acc.condition_list, r.rows),
                     resolved |-> Append(acc.resolved, r.rows)])

LoopStart ==
    [err |-> "none", conditions |-> EmptyDict, condition_list |-> <<>>,
     resolved |-> <<>>]

\* The whole body of get_current_condition on the two exchanges: the fetches
\* made, the error raised (if any) and the locals at that point.
ConditionRun(stns, ra, rb) ==
    LET a == GetCsvChecked(ra)
        b == GetCsvChecked(rb)
    IN  IF a.err # "none"
        THEN [LoopStart EXCEPT !.err = a.err]
                @@ [fetched |-> <<Fetch(CURRENT_CONDITION_URL, ra)>>]
        ELSE IF b.err # "none"
        THEN [LoopStart EXCEPT !.err = b.err]
                @@ [fetched |-> <<Fetch(CURRENT_CONDITION_URL, ra),
                                  Fetch(CURRENT_PRECIPITATION_URL, rb)>>]
        ELSE StationLoop(stns, 1, a.rows, b.rows, LoopStart)
                @@ [fetched |-> <<Fetch(CURRENT_CONDITION_URL, ra),
                                  Fetch(CURRENT_PRECIPITATION_URL, rb)>>]

\* A slip: the flat list is stored as the loop goes, so a failing call
\* leaves the rows gathered so far.
ConditionAfter_Partial(old, run) == Some(run.condition_list)

\* self._condition and self._conditions after the call: both are assigned
\* on the last two lines, from the locals.
ConditionAfter(old, run) ==
    IF run.err = "none" THEN Some(run.condition_list) ELSE old

ConditionsAfter(old, run) ==
    IF run.err = "none" THEN run.conditions ELSE old

Call(op, args, err, fetched, resolved, ret) ==
    [op |-> op, args |-> args, err |-> err, fetched |-> fetched,
     resolved |-> resolved, ret |-> ret]

get_forecast ==
    \E rf \in ResponsesF :
        LET run == ForecastRun(rf)
        IN  /\ forecast' = ForecastAfter(forecast, run)
            /\ last' = Call("get_forecast", <<>>, run.err,
                            <<Fetch(JSON_FORECAST_URL, rf)>>, <<>>, None)
            /\ UNCHANGED <<stations, condition, conditions, allStations,
                           stationFetches>>

\* The exchanges one call of get_current_condition can see: feed B is
\* requested only when feed A was read.
ConditionExchanges ==
    { <<ra, rb>> \in ResponsesA \X (ResponsesB \cup {NoResponse}) :
        (rb = NoResponse) <=> (GetCsvChecked(ra).err # "none") }

\* The exchanges one call of get_data can see: the feeds are requested only
\* when the forecast was read.
DataExchanges ==
    { <<rf, NoResponse, NoResponse>> :
        rf \in { r \in ResponsesF : ForecastRun(r).err # "none" } }
    \cup { <<rf, x[1], x[2]>> :
        rf \in { r \in ResponsesF : ForecastRun(r).err = "none" },
        x \in ConditionExchanges }

get_current_condition ==
    \E x \in ConditionExchanges :
        LET ra == x[1]
            rb == x[2]
            run == ConditionRun(stations, ra, rb)
        IN  /\ condition' = ConditionAfter(condition, run)
            /\ conditions' = ConditionsAfter(conditions, run)
            /\ last' = Call("get_current_condition", <<>>, run.err,
                            run.fetched, run.resolved, None)
            /\ UNCHANGED <<stations, forecast, allStations, stationFetches>>

\* get_data: get_forecast, then get_current_condition unless the first
\* raised; then the four stored fields are returned.
get_data ==
    \E x \in DataExchanges :
        LET frun == ForecastRun(x[1])
            crun == ConditionRun(stations, x[2], x[3])
            ff == <<Fetch(JSON_FORECAST_URL, x[1])>>
        IN  /\ IF frun.err # "none"
               THEN /\ last' = Call("get_data", <<>>, frun.err, ff, <<>>, None)
                    /\ UNCHANGED <<forecast, condition, conditions>>
               ELSE /\ forecast' = ForecastAfter(forecast, frun)
                    /\ condition' = ConditionAfter(condition, crun)
                    /\ conditions' = ConditionsAfter(conditions, crun)
                    /\ last' = Call("get_data", <<>>, crun.err,
                                    ff \o crun.fetched, crun.resolved,
                                    IF crun.err = "none"
                                    THEN Some([name |-> displayName,
                                               forecast |-> forecast',
                                               condition |-> condition',
                                               condition_by_station |-> conditions'])
                                    ELSE None)
            /\ UNCHANGED <<stations, allStations, stationFetches>>

\* ------------------------------------------------------ station directory
STATION_TYPE_PRECIPITATION == "Precipitation"   \* "Pr\'ecipitation"
STATION_TYPE_WEATHER == "Station meteo"         \* "Station m\'et\'eo"
WEATHER == "weather"                            \* StationType.WEATHER
PRECIPITATION == "precipitation"                \* StationType.PRECIPITATION

\* The default value of the parameter station_type: the expression
\* StationType | None, a types.UnionType object.  It is not None and it is
\* equal to no member of StationType.
DefaultStationType == "StationType | None"

StationTypeArgs ==
    { None, Some(WEATHER), Some(PRECIPITATION), Some(DefaultStationType) }

KeyAbr == "Abr."
KeyName == "Station"
KeyLat == "Latitude"
KeyLon == "Longitude"
KeyAlt == "Altitude station m s. mer"
KeyType == "Type de station"

DirLabels == { STATION_TYPE_WEATHER, STATION_TYPE_PRECIPITATION, "Autre" }
DirLats == {46, 47}
QueryLats == {45, 46, 47}
DirLons == {7}
StationIds == FeedCodes \cup {"XXX"}

DirRow(c, label, lat, lon) ==
    (KeyAbr :> c) @@ (KeyName :> ("name of " \o c)) @@ (KeyLat :> lat)
        @@ (KeyLon :> lon) @@ (KeyAlt :> "500") @@ (KeyType :> label)

DirRows ==
    { DirRow(c, l, lat, lon) :
        c \in FeedCodes, l \in DirLabels, lat \in DirLats, lon \in DirLons }

SeqsUpTo(S, n) == UNION { [1..k -> S] : k \in 0..n }

DirFeeds == SeqsUpTo(DirRows, MaxStationRows)

ResponsesS ==
    ResponsesOf(DirFeeds,
                {<<>>, <<DirRow("BER", STATION_TYPE_WEATHER, 46, 7)>>})

\* A slip: a code already in the dict keeps its first row.
DictPut_KeepsFirst(d, rec) ==
    IF \E i \in 1..Len(d) : d[i].code = rec.code THEN d ELSE Append(d, rec)

\* stationList[code] = stationData on an insertion-ordered dict: a known key
\* keeps its place and takes the new value, a new key goes to the end.
DictPut(d, rec) ==
    IF \E i \in 1..Len(d) : d[i].code = rec.code
    THEN [i \in 1..Len(d) |-> IF d[i].code = rec.code THEN rec ELSE d[i]]
    ELSE Append(d, rec)

\* The body of the loop over the rows: skip a row of another type, else
\* build stationData and store it under its code.
AddLine(stationList, line) ==
    IF line[KeyType] # STATION_TYPE_PRECIPITATION
        /\ line[KeyType] # STATION_TYPE_WEATHER
    THEN stationList
    ELSE DictPut(stationList,
            [code |-> line[KeyAbr], name |-> line[KeyName],
             lat |-> line[KeyLat], lon |-> line[KeyLon],
             altitude |-> line[KeyAlt],
             type |-> IF line[KeyType] = STATION_TYPE_PRECIPITATION
                      THEN PRECIPITATION ELSE WEATHER])

RECURSIVE BuildStationList(_, _, _)
BuildStationList(data, i, stationList) ==
    IF i > Len(data) THEN stationList
    ELSE BuildStationList(data, i + 1, AddLine(stationList, data[i]))

\* __get_all_stations: requests.get, then the parse and the loop.  There is
\* no raise_for_status here: the body is read whatever the status.
LoadStations(resp) ==
    IF resp.net # "ok" THEN [err |-> resp.net, stationList |-> <<>>]
    ELSE [err |-> "none",
          stationList |-> BuildStationList(resp.body, 1, <<>>)]

\* A slip: the directory is loaded on every call.
NeedsLoad_Always(all) == TRUE

\* if self._allStations is None
NeedsLoad(all) == all = None

\* The lazy load at the head of get_all_stations and get_station_name: the
\* error raised, the fetches made, and self._allStations afterwards.
EnsureLoaded(all, resp) ==
    IF NeedsLoad(all)
    THEN LET l == LoadStations(resp)
         IN  [err |-> l.err,
              fetched |-> <<Fetch(STATION_URL, resp)>>,
              all |-> IF l.err = "none" THEN Some(l.stationList) ELSE all]
    ELSE [err |-> "none", fetched |-> <<>>, all |-> all]

\* station_type is not None and station["type"] != station_type
Excluded(station, station_type) ==
    station_type # None /\ Some(station.type) # station_type

\* The loop of get_all_stations over the cached directory.
FilterStations(all, station_type) ==
    SelectSeq(all, LAMBDA st : ~Excluded(st, station_type))

\* geopy.distance.distance(hPoint, sPoint): zero for equal points, growing
\* with the separation (whole degrees on one meridian here).
Distance(lat1, lon1, lat2, lon2) ==
    (lat1 - lat2) * (lat1 - lat2) + (lon1 - lon2) * (lon1 - lon2)

\* data.sort(key=distance) is stable, so data[0] is the first tuple of the
\* least distance; an empty list raises IndexError, caught to give None.
ClosestOf(data) ==
    IF data = <<>> THEN None
    ELSE LET i == CHOOSE k \in 1..Len(data) :
                    /\ \A j \in 1..Len(data) : data[k][1] <= data[j][1]
                    /\ \A j \in 1..(k - 1) : data[j][1] > data[k][1]
         IN  Some(data[i][2])

\* The loop of get_closest_station over the stations get_all_stations gave.
DistancesTo(currentLat, currnetLon, list, station_type) ==
    LET kept == SelectSeq(list, LAMBDA st : ~Excluded(st, station_type))
    IN  [i \in 1..Len(kept) |->
            <<Distance(currentLat, currnetLon, kept[i].lat, kept[i].lon),
              kept[i].code>>]

\* self._allStations[stationId]["name"], None on KeyError.
NameOf(all, stationId) ==
    IF \E i \in 1..Len(all) : all[i].code = stationId
    THEN Some(all[CHOOSE i \in 1..Len(all) : all[i].code = stationId].name)
    ELSE None

\* The requests a call may make are bounded by MaxFetches.
MayCall == ~NeedsLoad(allStations) \/ stationFetches < MaxFetches

\* The exchanges one directory call can see: the feed is requested only
\* when the call has to load the directory.
StationExchanges == IF NeedsLoad(allStations) THEN ResponsesS ELSE {NoResponse}

get_all_stations ==
    \E station_type \in StationTypeArgs, rs \in StationExchanges :
        LET e == EnsureLoaded(allStations, rs)
        IN  /\ MayCall
            /\ allStations' = e.all
            /\ stationFetches' = stationFetches + Len(e.fetched)
            /\ last' = Call("get_all_stations", <<station_type>>, e.err,
                            e.fetched, <<>>,
                            IF e.err = "none"
                            THEN Some(FilterStations(e.all[1], station_type))
                            ELSE None)
            /\ UNCHANGED <<stations, forecast, condition, conditions>>

get_closest_station ==
    \E currentLat \in QueryLats, currnetLon \in DirLons,
       station_type \in StationTypeArgs, rs \in StationExchanges :
        LET e == EnsureLoaded(allStations, rs)
        IN  /\ MayCall
            /\ allStations' = e.all
            /\ stationFetches' = stationFetches + Len(e.fetched)
            /\ last' = Call("get_closest_station",
                            <<currentLat, currnetLon, station_type>>, e.err,
                            e.fetched, <<>>,
                            IF e.err = "none"
                            THEN ClosestOf(DistancesTo(currentLat, currnetLon,
                                    FilterStations(e.all[1], station_type),
                                    station_type))
                            ELSE None)
            /\ UNCHANGED <<stations, forecast, condition, conditions>>

get_station_name ==
    \E stationId \in StationIds, rs \in StationExchanges :
        LET e == EnsureLoaded(allStations, rs)
        IN  /\ MayCall
            /\ allStations' = e.all
            /\ stationFetches' = stationFetches + Len(e.fetched)
            /\ last' = Call("get_station_name", <<stationId>>, e.err,
                            e.fetched, <<>>,
                            IF e.err = "none" THEN NameOf(e.all[1], stationId)
                            ELSE None)
            /\ UNCHANGED <<stations, forecast, condition, conditions>>

\* ------------------------------------------------------ get_wind_bearing
\* Bearings are in hundredths of a degree, so that 11.25 is 1125.
MaxBearing == 36000

\* The dictionary lis, in its insertion order: label, lower and upper end.
lis ==
    << <<"N", 0, 1125>>,        <<"NNE", 1125, 3375>>,
       <<"NE", 3375, 5625>>,    <<"ENE", 5625, 7875>>,
       <<"E", 7875, 10125>>,    <<"ESE", 10125, 12375>>,
       <<"SE", 12375, 14625>>,  <<"SSE", 14625, 16875>>,
       <<"S", 16875, 19125>>,   <<"SSW", 19125, 21375>>,
       <<"SW", 21375, 23625>>,  <<"WSW", 23625, 25875>>,
       <<"W", 25875, 28125>>,   <<"WNW", 28125, 30375>>,
       <<"NW", 30375, 32625>>,  <<"NNW", 32625, 34875>> >>

\* for it in lis: if lis[it][0] <= float(val) <= lis[it][1]: return it
\* Falling out of the loop returns None.
WindBearing(val) ==
    IF \E i \in 1..Len(lis) : lis[i][2] <= val /\ val <= lis[i][3]
    THEN Some(lis[CHOOSE i \in 1..Len(lis) :
                    /\ lis[i][2] <= val /\ val <= lis[i][3]
                    /\ \A j \in 1..(i - 1) :
                          ~(lis[j][2] <= val /\ val <= lis[j][3])][1])
    ELSE None

get_wind_bearing ==
    /\ last.op = "call get_wind_bearing"
    /\ last' = Call("get_wind_bearing", last.args, "none", <<>>, <<>>,
                    WindBearing(last.args[1]))
    /\ UNCHANGED <<stations, forecast, condition, conditions, allStations,
                   stationFetches>>

\* ------------------------------------------------------------------ init
Fields(station) ==
    /\ stations = station
    /\ forecast = None
    /\ condition = None
    /\ conditions = EmptyDict
    /\ allStations = None
    /\ stationFetches = 0

Constructed(station) ==
    /\ Fields(station)
    /\ last = Call("__init__", <<>>, "none", <<>>, <<>>, None)

Init == \E station \in StationTuples : Constructed(station)

\* The directory operations and the bearing helper never read
\* self._stations: one client stands for all.
InitDir == Constructed(<<"BER">>)

NextCond == get_forecast \/ get_current_condition \/ get_data

SpecCond == Init /\ [][NextCond]_vars

NextDir == get_all_stations \/ get_closest_station \/ get_station_name

SpecDir == InitDir /\ [][NextDir]_vars

\* The bearing helper is a pure function of its argument: the client is
\* constructed and one call, with any bearing of the circle, is pending.
InitBearing ==
    /\ Fields(<<"BER">>)
    /\ \E val \in 0..MaxBearing :
          last = Call("call get_wind_bearing", <<val>>, "none", <<>>, <<>>, None)

NextBearing == get_wind_bearing

SpecBearing == InitBearing /\ [][NextBearing]_vars

\* =================================================================== claims
CondOps == {"get_current_condition", "get_data"}

ReadOk(f) == f.resp.net = "ok" /\ f.resp.status = 200

FetchesOf(url) == SelectSeq(last.fetched, LAMBDA f : f.url = url)

\* The last call asked for both condition feeds and read both.
FeedsRead ==
    /\ last.op \in CondOps
    /\ FetchesOf(CURRENT_CONDITION_URL) # <<>>
    /\ FetchesOf(CURRENT_PRECIPITATION_URL) # <<>>
    /\ ReadOk(FetchesOf(CURRENT_CONDITION_URL)[1])
    /\ ReadOk(FetchesOf(CURRENT_PRECIPITATION_URL)[1])

FeedA == FetchesOf(CURRENT_CONDITION_URL)[1].resp.body
FeedB == FetchesOf(CURRENT_PRECIPITATION_URL)[1].resp.body

\* The rows of a feed that carry a station code, in feed order.
Carrying(feed, code) ==
    LET idx == { i \in 1..Len(feed) : feed[i][KeyStation] = code }
        RECURSIVE Pick(_)
        Pick(i) == IF i > Len(feed) THEN <<>>
                   ELSE (IF i \in idx THEN <<feed[i]>> ELSE <<>>) \o Pick(i + 1)
    IN  Pick(1)

RECURSIVE Flatten(_)
Flatten(ss) == IF ss = <<>> THEN <<>> ELSE Head(ss) \o Flatten(Tail(ss))

\* C1: when a requested station has rows in feed A and in feed B, the call
\* completes without error and the station's record holds every key of its
\* feed-A row and of its feed-B row, with feed B's value on every key of
\* feed B.
C1_MergedRecord ==
    FeedsRead =>
        \A i \in 1..Len(stations) :
            LET a == Carrying(FeedA, stations[i])
                b == Carrying(FeedB, stations[i])
            IN  (a # <<>> /\ b # <<>>) =>
                    /\ last.err = "none"
                    /\ stations[i] \in DOMAIN conditions
                    /\ \A k \in DOMAIN a[1] \cup DOMAIN b[1] :
                          /\ k \in DOMAIN conditions[stations[i]]
                          /\ k \in DOMAIN b[1] =>
                                conditions[stations[i]][k] = b[1][k]

\* C2: for a requested station with no row in feed A, the rows resolved are
\* exactly the feed-B rows carrying its code; its turn in the loop raises
\* nothing; and with no feed-B row either it adds no row to the flat list
\* and no key to the per-station map.
C2_RainOnlyStation ==
    FeedsRead =>
        \A i \in 1..Len(stations) :
            Carrying(FeedA, stations[i]) = <<>> =>
                /\ i <= Len(last.resolved) =>
                      last.resolved[i] = Carrying(FeedB, stations[i])
                /\ last.err # "none" => i # Len(last.resolved) + 1
                /\ (last.err = "none" /\ Carrying(FeedB, stations[i]) = <<>>) =>
                      /\ stations[i] \notin DOMAIN conditions
                      /\ \A j \in 1..Len(condition[1]) :
                            condition[1][j][KeyStation] # stations[i]

C2_Witness ==
    /\ FeedsRead
    /\ last.op = "get_current_condition"
    /\ last.err = "none"
    /\ stations = <<"BER", "GVE">>
    /\ Carrying(FeedA, "BER") = <<>>
    /\ Len(Carrying(FeedB, "BER")) = 2
    /\ Carrying(FeedA, "GVE") = <<>>
    /\ Carrying(FeedB, "GVE") = <<>>
    /\ condition = Some(Carrying(FeedB, "BER"))
    /\ DOMAIN conditions = {"BER"}

\* The rows a successful call resolves for a station: on success no station
\* has rows in both feeds.
ResolvedFor(code) ==
    IF Carrying(FeedA, code) # <<>> THEN Carrying(FeedA, code)
    ELSE Carrying(FeedB, code)

FreshRows(cond, conds, feedA, feedB) ==
    LET rows == { feedA[i] : i \in 1..Len(feedA) }
                    \cup { feedB[i] : i \in 1..Len(feedB) }
    IN  /\ \A j \in 1..Len(cond[1]) : cond[1][j] \in rows
        /\ \A c \in DOMAIN conds : conds[c] \in rows /\ conds[c][KeyStation] = c

\* C10: a call that fails (in the fetch of either feed or in the loop)
\* leaves both stored fields as they were; a call that succeeds stores in
\* both only rows of the feeds it fetched.
C10_AllOrNothing ==
    [][ /\ (last'.op \in CondOps /\ last'.err # "none") =>
              (condition' = condition /\ conditions' = conditions)
        /\ (last'.op \in CondOps /\ last'.err = "none") =>
              /\ condition' # None
              /\ FreshRows(condition', conditions', FeedA', FeedB') ]_vars

C10_Witness ==
    /\ last.op = "get_current_condition"
    /\ last.err = "AttributeError"
    /\ condition # None
    /\ Len(condition[1]) = 2
    /\ DOMAIN conditions # {}

DirOps == {"get_all_stations", "get_closest_station", "get_station_name"}

\* C4 as stated: over any sequence of directory calls the feed is fetched
\* at most once.
C4_FetchedAtMostOnce == stationFetches <= 1

\* C4, amended: a call made while the directory is cached makes no fetch and
\* keeps the cache; a call made while nothing is cached makes one fetch.
C4_CachedNoRefetch ==
    [][ /\ allStations # None =>
              (stationFetches' = stationFetches /\ allStations' = allStations)
        /\ allStations = None => stationFetches' = stationFetches + 1 ]_vars

C4_Witness ==
    /\ stationFetches = 2
    /\ allStations # None
    /\ last.op = "get_station_name"
    /\ last.fetched = <<>>
    /\ last.ret # None

\* C5: get_closest_station at the coordinates of a station of the
\* directory, with no type filter passed (or with that station's type),
\* returns that station's code (a station at these coordinates, when several
\* share them).
C5_CoincidentStation ==
    (last.op = "get_closest_station" /\ last.err = "none") =>
        LET dir == allStations[1]
            here(st) == st.lat = last.args[1] /\ st.lon = last.args[2]
            unfiltered == last.args[3] \in {None, Some(DefaultStationType)}
        IN  \A i \in 1..Len(dir) :
                (here(dir[i]) /\ (unfiltered \/ last.args[3] = Some(dir[i].type)))
                => /\ last.ret # None
                   /\ \E j \in 1..Len(dir) :
                         dir[j].code = last.ret[1] /\ here(dir[j])
                   /\ (\A j \in 1..Len(dir) : here(dir[j]) => j = i)
                         => last.ret = Some(dir[i].code)

\* C6: get_all_stations without a type filter returns every cached station,
\* and with filter type t exactly the cached stations of type t.
C6_AllStations ==
    (last.op = "get_all_stations" /\ last.err = "none") =>
        LET dir == allStations[1]
            f == last.args[1]
        IN  /\ f \in {None, Some(DefaultStationType)} => last.ret = Some(dir)
            /\ f \in {Some(WEATHER), Some(PRECIPITATION)} =>
                  last.ret = Some(SelectSeq(dir, LAMBDA st : Some(st.type) = f))

\* The last call read the directory feed and built the directory from it.
Loaded ==
    /\ last.op \in DirOps
    /\ last.fetched # <<>>
    /\ last.fetched[1].resp.net = "ok"

LoadedRows == last.fetched[1].resp.body

Recognized(row) ==
    row[KeyType] \in {STATION_TYPE_WEATHER, STATION_TYPE_PRECIPITATION}

\* C7 as stated: the size of the directory is the number of input rows with
\* a recognized label.
C7_SizeIsRecognizedRows ==
    Loaded =>
        Len(allStations[1]) =
            Cardinality({ i \in 1..Len(LoadedRows) : Recognized(LoadedRows[i]) })

\* C7, amended: the directory holds one entry per station code that occurs
\* in a row with a recognized label, and no other; the entry of a code is
\* built from the last such row, with the type matching its label.
C7_Directory ==
    Loaded =>
        LET dir == allStations[1]
            rows == LoadedRows
            rec == { i \in 1..Len(rows) : Recognized(rows[i]) }
            lastOf(c) == CHOOSE i \in rec :
                            /\ rows[i][KeyAbr] = c
                            /\ \A j \in rec : rows[j][KeyAbr] = c => j <= i
        IN  /\ Len(dir) = Cardinality({ rows[i][KeyAbr] : i \in rec })
            /\ \A k \in 1..Len(dir) :
                  /\ \E i \in rec : rows[i][KeyAbr] = dir[k].code
                  /\ \A m \in 1..Len(dir) : dir[m].code = dir[k].code => m = k
                  /\ LET r == rows[lastOf(dir[k].code)]
                     IN  /\ dir[k].name = r[KeyName]
                         /\ dir[k].lat = r[KeyLat]
                         /\ dir[k].lon = r[KeyLon]
                         /\ dir[k].altitude = r[KeyAlt]
                         /\ (r[KeyType] = STATION_TYPE_WEATHER
                                => dir[k].type = WEATHER)
                         /\ (r[KeyType] = STATION_TYPE_PRECIPITATION
                                => dir[k].type = PRECIPITATION)

C7_Witness ==
    /\ Loaded
    /\ Len(LoadedRows) = 2
    /\ LoadedRows[1][KeyAbr] = LoadedRows[2][KeyAbr]
    /\ LoadedRows[1][KeyType] = STATION_TYPE_WEATHER
    /\ LoadedRows[2][KeyType] = STATION_TYPE_PRECIPITATION
    /\ LoadedRows[1][KeyLat] # LoadedRows[2][KeyLat]
    /\ Len(allStations[1]) = 1
    /\ allStations[1][1].type = PRECIPITATION

\* C8: a fetch answered with a non-2xx status makes the call that made it
\* fail with the transport error; it is the call's last fetch, no request
\* is repeated, and its body is not cached.
C8_TransportError ==
    \A i \in 1..Len(last.fetched) :
        LET f == last.fetched[i]
        IN  (f.resp.net = "ok" /\ ~(f.resp.status >= 200 /\ f.resp.status < 300))
            => /\ last.err = "HTTPError"
               /\ last.ret = None
               /\ i = Len(last.fetched)
               /\ \A j \in 1..Len(last.fetched) :
                     last.fetched[j].url = f.url => j = i
               /\ f.url = STATION_URL => allStations = None

\* The sixteen labels, clockwise from north.
Compass16 ==
    << "N", "NNE", "NE", "ENE", "E", "ESE", "SE", "SSE",
       "S", "SSW", "SW", "WSW", "W", "WNW", "NW", "NNW" >>

\* Label k covers the 22.5 degrees centred on (k - 1) * 22.5, ends included;
\* north is the arc across the 0/360 wrap.
InBucket(k, val) ==
    \/ (k - 1) * 2250 - 1125 <= val /\ val <= (k - 1) * 2250 + 1125
    \/ k = 1 /\ val >= 34875 /\ val <= 36000

====
